---- MODULE Spec2Model ----
(***************************************************************************)
(* Provider abstraction and local-model stream negotiation of ai-shell:    *)
(* LocalStreamHandler (local-stream.ts), OpenAIProvider, LocalProvider and *)
(* the provider registry (helpers/providers.ts).                           *)
(*                                                                         *)
(* One invocation is in flight at a time (the code is single-threaded and  *)
(* every operation is an async function); an action is the code that runs  *)
(* between two awaits.  The servers are the environment: every settled     *)
(* fetch / upstream call draws its outcome from a small set.               *)
(***************************************************************************)
EXTENDS Integers, Sequences, FiniteSets, TLC

VARIABLES
    pc,          \* where the invocation in flight is suspended ("idle", "done", or an await)
    op,          \* the operation invoked by the caller
    args,        \* the arguments of the invocation
    fmt,         \* createStream / listModels: the dialect being attempted
    body,        \* createStreamWithFormat: the local `body` object
    requests,    \* every HTTP request issued by the invocation, in order
    responses,   \* the outcome of every settled request, in order
    result       \* what the invocation returned or threw

vars == <<pc, op, args, fmt, body, requests, responses, result>>

None == [kind |-> "none"]

----------------------------------------------------------------------------
(* Text.  A JavaScript string is modelled as a sequence of lexical tokens   *)
(* [k, s]: k is the token class and s its spelling.                         *)

Raw(s) == [k |-> "raw", s |-> s]
Str(s) == [k |-> "str", s |-> s]
Num(s) == [k |-> "num", s |-> s]
Lit(s) == [k |-> "lit", s |-> s]
Pun(s) == [k |-> "pun", s |-> s]
Ws(s) == [k |-> "ws", s |-> s]
Esc(s) == [k |-> "esc", s |-> s]

\* String.prototype.includes: needle occurs as a contiguous run of hay
Includes(hay, needle) ==
    \E i \in 0..(Len(hay) - Len(needle)) :
        \A j \in 1..Len(needle) : hay[i + j] = needle[j]

----------------------------------------------------------------------------
(* JSON values: [t, s, items].  t is the type tag; s the spelling of a      *)
(* scalar; items the elements of an array, or the [key, val] members of an  *)
(* object.                                                                  *)

JNull == [t |-> "null", s |-> "null", items |-> <<>>]
JFalse == [t |-> "bool", s |-> "false", items |-> <<>>]
JTrue == [t |-> "bool", s |-> "true", items |-> <<>>]
JNum(s) == [t |-> "num", s |-> s, items |-> <<>>]
JStr(s) == [t |-> "str", s |-> s, items |-> <<>>]
JArr(items) == [t |-> "arr", s |-> "", items |-> items]
JObj(members) == [t |-> "obj", s |-> "", items |-> members]
Member(key, val) == [key |-> key, val |-> val]
Undefined == [t |-> "undefined", s |-> "undefined", items |-> <<>>]

ParseFail == [ok |-> FALSE, val |-> Undefined, rest |-> <<>>]
ParseOk(v, rest) == [ok |-> TRUE, val |-> v, rest |-> rest]

RECURSIVE StripWs(_)
StripWs(text) ==
    IF text = <<>> THEN <<>>
    ELSE IF Head(text).k = "ws" THEN StripWs(Tail(text))
    ELSE <<Head(text)>> \o StripWs(Tail(text))

RECURSIVE ParseValue(_), ParseElements(_, _), ParseMembers(_, _)
ParseValue(ts) ==
    IF ts = <<>> THEN ParseFail
    ELSE LET h == Head(ts)
             r == Tail(ts)
         IN CASE h.k = "str" -> ParseOk(JStr(h.s), r)
              [] h.k = "num" -> ParseOk(JNum(h.s), r)
              [] h.k = "lit" -> ParseOk(IF h.s = "null" THEN JNull
                                        ELSE IF h.s = "false" THEN JFalse ELSE JTrue, r)
              [] h = Pun("[") ->
                    IF r # <<>> /\ Head(r) = Pun("]")
                    THEN ParseOk(JArr(<<>>), Tail(r))
                    ELSE ParseElements(r, <<>>)
              [] h = Pun("{") ->
                    IF r # <<>> /\ Head(r) = Pun("}")
                    THEN ParseOk(JObj(<<>>), Tail(r))
                    ELSE ParseMembers(r, <<>>)
              [] OTHER -> ParseFail

ParseElements(ts, acc) ==
    LET e == ParseValue(ts)
    IN IF ~e.ok \/ e.rest = <<>> THEN ParseFail
       ELSE IF Head(e.rest) = Pun(",")
            THEN ParseElements(Tail(e.rest), Append(acc, e.val))
       ELSE IF Head(e.rest) = Pun("]")
            THEN ParseOk(JArr(Append(acc, e.val)), Tail(e.rest))
       ELSE ParseFail

ParseMembers(ts, acc) ==
    IF Len(ts) < 3 \/ ts[1].k # "str" \/ ts[2] # Pun(":") THEN ParseFail
    ELSE LET e == ParseValue(SubSeq(ts, 3, Len(ts)))
             m == Member(ts[1].s, e.val)
         IN IF ~e.ok \/ e.rest = <<>> THEN ParseFail
            ELSE IF Head(e.rest) = Pun(",")
                 THEN ParseMembers(Tail(e.rest), Append(acc, m))
            ELSE IF Head(e.rest) = Pun("}")
                 THEN ParseOk(JObj(Append(acc, m)), Tail(e.rest))
            ELSE ParseFail

\* JSON.parse(text): [ok, val]; ok = FALSE is the SyntaxError
JSONparse(text) ==
    LET p == ParseValue(StripWs(text))
    IN IF p.ok /\ p.rest = <<>> THEN [ok |-> TRUE, val |-> p.val]
       ELSE [ok |-> FALSE, val |-> Undefined]

RECURSIVE Indent(_)
Indent(depth) == IF depth = 0 THEN <<>> ELSE <<Ws("  ")>> \o Indent(depth - 1)

Newline(pretty, depth) == IF pretty THEN <<Ws("\n")>> \o Indent(depth) ELSE <<>>

\* JSON.stringify(value) (pretty = FALSE) and JSON.stringify(value, null, 2)
RECURSIVE Stringify(_, _, _), StringifyItems(_, _, _, _)
Stringify(v, pretty, depth) ==
    CASE v.t = "str" -> <<Str(v.s)>>
      [] v.t = "num" -> <<Num(v.s)>>
      [] v.t \in {"null", "bool"} -> <<Lit(v.s)>>
      [] v.t = "arr" ->
            IF v.items = <<>> THEN <<Pun("["), Pun("]")>>
            ELSE <<Pun("[")>> \o StringifyItems(v.items, FALSE, pretty, depth + 1)
                 \o Newline(pretty, depth) \o <<Pun("]")>>
      [] v.t = "obj" ->
            IF v.items = <<>> THEN <<Pun("{"), Pun("}")>>
            ELSE <<Pun("{")>> \o StringifyItems(v.items, TRUE, pretty, depth + 1)
                 \o Newline(pretty, depth) \o <<Pun("}")>>

StringifyItems(items, isObj, pretty, depth) ==
    IF items = <<>> THEN <<>>
    ELSE LET x == Head(items)
             one == IF isObj
                    THEN <<Str(x.key), Pun(":")>> \o (IF pretty THEN <<Ws(" ")>> ELSE <<>>)
                         \o Stringify(x.val, pretty, depth)
                    ELSE Stringify(x, pretty, depth)
         IN Newline(pretty, depth) \o one
            \o (IF Len(items) > 1 THEN <<Pun(",")>> ELSE <<>>)
            \o StringifyItems(Tail(items), isObj, pretty, depth)

\* JSON.stringify of a JavaScript string: a quoted literal, its quotes and
\* control characters escaped
EscapeToken(tk) == IF tk.k \in {"str", "ws"} THEN Esc(tk.s) ELSE tk

StringLiteral(text) ==
    <<Pun("\"")>> \o [i \in 1..Len(text) |-> EscapeToken(text[i])] \o <<Pun("\"")>>

\* JavaScript truthiness of a parsed JSON value
Truthy(v) ==
    ~ \/ v.t \in {"null", "undefined"}
      \/ v = JFalse
      \/ (v.t = "num" /\ v.s = "0")
      \/ (v.t = "str" /\ v.s = "")

\* property read obj[key] on a parsed JSON value that is not null
Get(v, key) ==
    IF v.t = "obj" /\ \E i \in 1..Len(v.items) : v.items[i].key = key
    THEN v.items[CHOOSE i \in 1..Len(v.items) :
                    /\ v.items[i].key = key
                    /\ \A j \in (i + 1)..Len(v.items) : v.items[j].key # key].val
    ELSE Undefined

----------------------------------------------------------------------------
(* Errors and results.                                                      *)

Err(type, message) == [type |-> type, message |-> message]
Returned(v) == [kind |-> "return", value |-> v]
Thrown(e) == [kind |-> "throw", err |-> e]

\* a stream handed to the caller: the body of the response numbered `index`
\* in `responses`, or the synthesized Readable with its chunks
BodyStream(index) == [src |-> "response", index |-> index, chunks |-> <<>>]
FakeStream(chunks) == [src |-> "fake", index |-> 0, chunks |-> chunks]

----------------------------------------------------------------------------
(* The environment of LocalStreamHandler: inputs and server outcomes.       *)

Endpoints == {"http://localhost:11434", "http://127.0.0.1:1234"}
ModelNames == {"llama2"}
Keys == {"sk-test"}
MessageLists == {<<[role |-> "user", content |-> "list files"]>>}
Pinned == {"ollama", "lmstudio", "openai", "undefined"}

Header(text) == [present |-> TRUE, value |-> text]
NoHeader == [present |-> FALSE, value |-> <<>>]
ContentTypes ==
    { Header(<<Raw("application/x-ndjson")>>),
      Header(<<Raw("text/event-stream"), Raw("; charset=utf-8")>>),
      Header(<<Raw("application/json")>>),
      NoHeader }

Rejected == [kind |-> "reject", status |-> 0, hasBody |-> FALSE, contentType |-> NoHeader]
Response(status, hasBody, contentType) ==
    [kind |-> "response", status |-> status, hasBody |-> hasBody, contentType |-> contentType]

\* what a settled fetch() can be: a transport error, or a response
FetchOutcomes ==
    {Rejected}
    \cup {Response(200, TRUE, ct) : ct \in ContentTypes}
    \cup { Response(200, FALSE, NoHeader),
           Response(404, TRUE, Header(<<Raw("application/json")>>)),
           Response(500, FALSE, NoHeader) }

Ok(response) == response.kind = "response" /\ response.status \in 200..299

StatusText(status) ==
    CASE status = 200 -> "OK"
      [] status = 404 -> "Not Found"
      [] status = 429 -> "Too Many Requests"
      [] status = 500 -> "Internal Server Error"
      [] OTHER -> ""

\* what the body of a chat response can hold when response.json() reads it
ChatTexts ==
    { <<Pun("{"), Str("message"), Pun(":"), Str("hi"), Pun(","),
        Str("done"), Pun(":"), Lit("true"), Pun("}")>>,
      <<Pun("{"), Ws(" "), Str("message"), Pun(":"), Ws(" "), Str("hi"), Ws("\n"), Pun("}")>>,
      <<Raw("<html>")>>,
      <<Pun("{"), Str("message"), Pun(":")>>,
      <<>> }

BodyRead(text) == [kind |-> "body", text |-> text]
BodyError == [kind |-> "bodyerror", text |-> <<>>]
BodyOutcomes == {BodyError} \cup {BodyRead(t) : t \in ChatTexts}

\* response.json() of a response without a body reads the empty text
CanRead(response, o) == response.hasBody \/ o = BodyRead(<<>>)

----------------------------------------------------------------------------
(* LocalStreamHandler.createStream / createStreamWithFormat                 *)

\* mutant of formats: the last two dialects change places
formatsSwapped == <<"ollama", "openai", "lmstudio">>

formats == <<"ollama", "lmstudio", "openai">>

\* the switch of createStreamWithFormat: the URL of a dialect
ChatUrl(endpoint, format) ==
    CASE format = "ollama" -> <<Raw(endpoint), Raw("/api/chat")>>
      [] format = "lmstudio" -> <<Raw(endpoint), Raw("/v1/chat/completions")>>
      [] format = "openai" -> <<Raw(endpoint), Raw("/chat/completions")>>

\* the switch of createStreamWithFormat: the request body of a dialect
ChatBody(model, messages, format) ==
    CASE format = "ollama" ->
            [model |-> model, messages |-> messages, stream |-> TRUE,
             options |-> [temperature |-> "0.7", top_p |-> "0.9"]]
      [] format = "lmstudio" ->
            [model |-> model, messages |-> messages, stream |-> TRUE, temperature |-> "0.7"]
      [] format = "openai" ->
            [model |-> model, messages |-> messages, stream |-> TRUE]

Post(url, b) == [method |-> "POST", url |-> url, body |-> b]

\* the aggregated error thrown after the loop of createStream
ExhaustedError(endpoint) ==
    Err("KnownError",
        <<Raw("Failed to connect to any local model server at "), Raw(endpoint),
          Raw(". Supported formats: Ollama, LM Studio, OpenAI-compatible")>>)

RequestFailed(format, response) ==
    Err("Error", <<Raw(format), Raw(" request failed: "), Raw(StatusText(response.status))>>)

NonStreamFailed(format, response) ==
    Err("Error", <<Raw(format), Raw(" request failed (non-stream): "),
                   Raw(StatusText(response.status))>>)

FetchFailed == Err("TypeError", <<Raw("fetch failed")>>)
JsonFailed == Err("SyntaxError", <<Raw("Unexpected token in JSON")>>)
BodyFailed == Err("TypeError", <<Raw("terminated")>>)

\* the content-type gate of the ollama dialect
IsStreamContentType(header) ==
    LET contentType == IF header.present THEN header.value ELSE <<>>
    IN \/ Includes(contentType, <<Raw("application/x-ndjson")>>)
       \/ Includes(contentType, <<Raw("text/event-stream")>>)

\* mutant of FakeChunks: the JSON is pushed pretty-printed and unframed
FakeChunksUnframed(json) == <<Stringify(json, TRUE, 0)>>

\* mutant of isOllama: the flag is never set
isOllamaNever(format) == FALSE

\* let isOllama = format === 'ollama'
isOllama(format) == format = "ollama"

\* mutant of AcceptsStream: the content-type gate is applied to every dialect
AcceptsStreamGated(format, response) ==
    Ok(response) /\ response.hasBody /\ IsStreamContentType(response.contentType)

\* the two branches that return response.body as the stream
AcceptsStream(format, response) ==
    /\ Ok(response) /\ response.hasBody
    /\ isOllama(format) => IsStreamContentType(response.contentType)

\* read() of the synthesized Readable: one framed chunk, then the end
FakeChunks(json) == << <<Raw("data: ")>> \o Stringify(json, FALSE, 0) \o <<Raw("\n")>> >>

\* the invocation is over: it returned or threw r
Finish(r) ==
    /\ pc' = "done"
    /\ result' = r
    /\ UNCHANGED <<fmt, body, requests>>

\* mutant of Attempt: the request of the next dialect is sent along, speculatively
AttemptRacing(a, format, sent) ==
    /\ fmt' = format
    /\ body' = ChatBody(a.model, a.messages, format)
    /\ requests' = sent \o <<Post(ChatUrl(a.endpoint, format),
                                   ChatBody(a.model, a.messages, format)),
                              Post(ChatUrl(a.endpoint, "openai"),
                                   ChatBody(a.model, a.messages, "openai"))>>
    /\ pc' = "fetch"

\* createStreamWithFormat up to its first await: the streaming request goes out
Attempt(a, format, sent) ==
    /\ fmt' = format
    /\ body' = ChatBody(a.model, a.messages, format)
    /\ requests' = Append(sent, Post(ChatUrl(a.endpoint, format),
                                     ChatBody(a.model, a.messages, format)))
    /\ pc' = "fetch"

\* mutant of NextFormat: the loop stops one dialect early
NextFormatStopsEarly(format) == IF format = "ollama" THEN "lmstudio" ELSE "undefined"

NextFormat(format) ==
    LET i == CHOOSE k \in 1..Len(formats) : formats[k] = format
    IN IF i < Len(formats) THEN formats[i + 1] ELSE "undefined"

\* the catch of LocalProvider.generateCompletion
LocalServerError(localEndpoint, error) ==
    Err("KnownError",
        <<Raw("Failed to connect to local model server at "), Raw(localEndpoint),
          Raw(". Make sure your local model server (Ollama, LM Studio, etc.) is running."),
          Raw("\n\nError: ")>> \o error.message)

\* mutant of GenerateResult: the message names the endpoint as the caller gave it
GenerateResultRawEndpoint(r) ==
    IF r.kind = "throw" THEN Thrown(LocalServerError(args.apiEndpoint, r.err))
    ELSE Returned(r.value.stream)

\* LocalProvider.generateCompletion after `await createStream`: the stream is
\* destructured and returned, an error is wrapped
GenerateResult(r) ==
    IF r.kind = "throw" THEN Thrown(LocalServerError(args.endpoint, r.err))
    ELSE Returned(r.value.stream)

\* createStream is over with r; under LocalProvider.generateCompletion its caller goes on
CreateStreamFinished(r) ==
    Finish(IF op = "LocalProvider.generateCompletion" THEN GenerateResult(r) ELSE r)

\* mutant of AttemptThrew: the loop runs for a pinned call too
AttemptThrewLoopsAlways(e) ==
    IF NextFormat(fmt) # "undefined"
    THEN Attempt(args, NextFormat(fmt), requests) /\ UNCHANGED result
    ELSE CreateStreamFinished(Thrown(ExhaustedError(args.endpoint)))

\* createStreamWithFormat threw e: a pinned call lets it through, the loop of
\* an unpinned call moves to the next dialect or throws the aggregated error
AttemptThrew(e) ==
    IF args.format # "undefined" THEN CreateStreamFinished(Thrown(e))
    ELSE IF NextFormat(fmt) # "undefined"
         THEN Attempt(args, NextFormat(fmt), requests) /\ UNCHANGED result
    ELSE CreateStreamFinished(Thrown(ExhaustedError(args.endpoint)))

\* createStreamWithFormat returned a stream
AttemptReturned(stream) ==
    CreateStreamFinished(Returned([stream |-> stream, format |-> fmt]))

CreateStream(endpoint, model, messages, format) ==
    /\ pc = "idle"
    /\ op' = "createStream"
    /\ args' = [endpoint |-> endpoint, model |-> model, messages |-> messages,
                format |-> format]
    /\ Attempt(args', IF format # "undefined" THEN format ELSE formats[1], <<>>)
    /\ UNCHANGED <<responses, result>>

\* the streaming fetch of createStreamWithFormat settles
StreamFetchSettled(o) ==
    /\ pc = "fetch"
    /\ responses' = Append(responses, o)
    /\ UNCHANGED <<op, args>>
    /\ IF o.kind = "reject" THEN AttemptThrew(FetchFailed)
       ELSE IF AcceptsStream(fmt, o)
            THEN AttemptReturned(BodyStream(Len(responses) + 1))
       ELSE IF isOllama(fmt)
            THEN /\ body' = [body EXCEPT !.stream = FALSE]
                 /\ requests' = Append(requests, Post(ChatUrl(args.endpoint, fmt),
                                                      [body EXCEPT !.stream = FALSE]))
                 /\ pc' = "retry"
                 /\ UNCHANGED <<fmt, result>>
       ELSE AttemptThrew(RequestFailed(fmt, o))

\* the stream:false fetch of the ollama dialect settles
RetryFetchSettled(o) ==
    /\ pc = "retry"
    /\ responses' = Append(responses, o)
    /\ UNCHANGED <<op, args>>
    /\ IF o.kind = "reject" THEN AttemptThrew(FetchFailed)
       ELSE IF ~Ok(o) THEN AttemptThrew(NonStreamFailed(fmt, o))
       ELSE /\ pc' = "json"
            /\ UNCHANGED <<fmt, body, requests, result>>

\* response.json() of the stream:false response settles
JsonSettled(o) ==
    /\ pc = "json"
    /\ CanRead(responses[Len(responses)], o)
    /\ responses' = Append(responses, o)
    /\ UNCHANGED <<op, args>>
    /\ IF o.kind = "bodyerror" THEN AttemptThrew(BodyFailed)
       ELSE IF ~JSONparse(o.text).ok THEN AttemptThrew(JsonFailed)
       ELSE AttemptReturned(FakeStream(FakeChunks(JSONparse(o.text).val)))

----------------------------------------------------------------------------
(* LocalStreamHandler.listModels and LocalProvider.getModels                *)

DefaultLocalEndpoint == "http://localhost:11434"

\* apiEndpoint || 'http://localhost:11434'
LocalEndpoint(apiEndpoint) == IF apiEndpoint # "" THEN apiEndpoint ELSE DefaultLocalEndpoint

\* mutant of ModelsUrl: the paths of the first two probes change places
ModelsUrlSwapped(endpoint, format) ==
    CASE format = "ollama" -> <<Raw(endpoint), Raw("/v1/models")>>
      [] format = "lmstudio" -> <<Raw(endpoint), Raw("/api/tags")>>
      [] format = "openai" -> <<Raw(endpoint), Raw("/models")>>

\* the `formats` table of listModels: url suffix, list field and id field
ModelsUrl(endpoint, format) ==
    CASE format = "ollama" -> <<Raw(endpoint), Raw("/api/tags")>>
      [] format = "lmstudio" -> <<Raw(endpoint), Raw("/v1/models")>>
      [] format = "openai" -> <<Raw(endpoint), Raw("/models")>>

ListField(format) == IF format = "ollama" THEN "models" ELSE "data"
IdField(format) == IF format = "ollama" THEN "name" ELSE "id"

Get_(url) == [method |-> "GET", url |-> url, body |-> None]

\* mutant of Transform: no `?.` and no `|| []`, a missing list field throws
TransformStrict(format, data) ==
    LET list == Get(data, ListField(format))
    IN IF data.t = "null" \/ list.t # "arr" THEN [ok |-> FALSE, val |-> <<>>]
       ELSE IF \E i \in 1..Len(list.items) : list.items[i].t = "null"
            THEN [ok |-> FALSE, val |-> <<>>]
       ELSE [ok |-> TRUE,
             val |-> [i \in 1..Len(list.items) |->
                         [id |-> Get(list.items[i], IdField(format)),
                          name |-> Get(list.items[i], IdField(format))]]]

\* transform(data) of a dialect: [ok, val]; ok = FALSE is a TypeError
\* (a property read on null, or .map on something that is no array)
Transform(format, data) ==
    IF data.t = "null" THEN [ok |-> FALSE, val |-> <<>>]
    ELSE LET list == Get(data, ListField(format))
         IN IF list.t \in {"undefined", "null"} THEN [ok |-> TRUE, val |-> <<>>]
            ELSE IF list.t # "arr" THEN [ok |-> FALSE, val |-> <<>>]
            ELSE IF \E i \in 1..Len(list.items) : list.items[i].t = "null"
                 THEN [ok |-> FALSE, val |-> <<>>]
            ELSE [ok |-> TRUE,
                  val |-> [i \in 1..Len(list.items) |->
                              [id |-> Get(list.items[i], IdField(format)),
                               name |-> Get(list.items[i], IdField(format))]]]

ModelDescriptor(id) ==
    [id |-> id, object |-> "model", created |-> "Date.now()", owned_by |-> "local"]

getDefaultModels ==
    << ModelDescriptor(JStr("llama2")), ModelDescriptor(JStr("llama2:7b")),
       ModelDescriptor(JStr("llama2:13b")), ModelDescriptor(JStr("llama2:70b")),
       ModelDescriptor(JStr("llama2:7b-chat")), ModelDescriptor(JStr("llama2:13b-chat")),
       ModelDescriptor(JStr("llama2:70b-chat")), ModelDescriptor(JStr("codellama")),
       ModelDescriptor(JStr("codellama:7b")), ModelDescriptor(JStr("codellama:34b-code-q5_K_M")),
       ModelDescriptor(JStr("codellama:13b")), ModelDescriptor(JStr("codellama:34b")),
       ModelDescriptor(JStr("nous-hermes2:34b")), ModelDescriptor(JStr("nous-hermes:34b-instruct")) >>

\* mutant of GetModelsResult: an empty listing is reported as an error
GetModelsResultRejectsEmpty(listed) ==
    IF listed.kind = "throw" THEN Returned(getDefaultModels)
    ELSE IF listed.value = <<>> THEN Thrown(Err("KnownError", <<Raw("No models found")>>))
    ELSE Returned([i \in 1..Len(listed.value) |-> ModelDescriptor(listed.value[i].id)])

\* the continuation of LocalProvider.getModels after `await listModels`
GetModelsResult(listed) ==
    IF listed.kind = "throw" THEN Returned(getDefaultModels)
    ELSE Returned([i \in 1..Len(listed.value) |->
                      ModelDescriptor(IF Truthy(listed.value[i].id)
                                      THEN listed.value[i].id
                                      ELSE listed.value[i].name)])

\* listModels is over with `listed`; under LocalProvider.getModels its caller goes on
ListModelsFinished(listed) ==
    Finish(IF op = "LocalProvider.getModels" THEN GetModelsResult(listed) ELSE listed)

\* one turn of the loop of listModels up to its await: the probe goes out
Probe(endpoint, format, sent) ==
    /\ fmt' = format
    /\ requests' = Append(sent, Get_(ModelsUrl(endpoint, format)))
    /\ pc' = "probe"
    /\ UNCHANGED body

\* the loop of listModels goes on after the probe of `fmt`
ProbeNext ==
    IF NextFormat(fmt) # "undefined"
    THEN Probe(args.endpoint, NextFormat(fmt), requests) /\ UNCHANGED result
    ELSE ListModelsFinished(Returned(<<>>))

ListModels(endpoint) ==
    /\ pc = "idle"
    /\ op' = "listModels"
    /\ args' = [endpoint |-> endpoint]
    /\ Probe(endpoint, formats[1], <<>>)
    /\ UNCHANGED <<responses, result>>

GetModels(key, apiEndpoint) ==
    /\ pc = "idle"
    /\ op' = "LocalProvider.getModels"
    /\ args' = [key |-> key, apiEndpoint |-> apiEndpoint,
                endpoint |-> LocalEndpoint(apiEndpoint)]
    /\ Probe(LocalEndpoint(apiEndpoint), formats[1], <<>>)
    /\ UNCHANGED <<responses, result>>

\* the fetch of a model-listing probe settles
ProbeSettled(o) ==
    /\ pc = "probe"
    /\ responses' = Append(responses, o)
    /\ UNCHANGED <<op, args>>
    /\ IF o.kind = "reject" THEN ProbeNext
       ELSE IF Ok(o) THEN pc' = "probe_json" /\ UNCHANGED <<fmt, body, requests, result>>
       ELSE ProbeNext

\* response.json() of a probe settles, and transform runs
ProbeJsonSettled(o) ==
    /\ pc = "probe_json"
    /\ CanRead(responses[Len(responses)], o)
    /\ responses' = Append(responses, o)
    /\ UNCHANGED <<op, args>>
    /\ IF o.kind = "bodyerror" \/ ~JSONparse(o.text).ok THEN ProbeNext
       ELSE IF ~Transform(fmt, JSONparse(o.text).val).ok THEN ProbeNext
       ELSE ListModelsFinished(Returned(Transform(fmt, JSONparse(o.text).val).val))

\* what a settled model-listing fetch can be
ProbeOutcomes ==
    { Rejected,
      Response(200, TRUE, Header(<<Raw("application/json")>>)),
      Response(404, TRUE, Header(<<Raw("application/json")>>)),
      Response(500, FALSE, NoHeader) }

NameList(field, key, names) ==
    <<Pun("{"), Str(field), Pun(":"), Pun("["),
      Pun("{"), Str(key), Pun(":"), Str(names[1]), Pun("}"), Pun(","),
      Pun("{"), Str(key), Pun(":"), Str(names[2]), Pun("}"),
      Pun("]"), Pun("}")>>

\* what the body of a model-listing response can hold
ModelsTexts ==
    { NameList("models", "name", <<"mistral", "phi3">>),
      NameList("data", "id", <<"qwen2", "gemma">>),
      <<Pun("{"), Str("error"), Pun(":"), Str("not found"), Pun("}")>>,
      <<Pun("{"), Str("models"), Pun(":"), Pun("["), Lit("null"), Pun("]"), Pun("}")>>,
      <<Lit("null")>>,
      <<Raw("<html>")>> }

ModelsBodyOutcomes == {BodyError} \cup {BodyRead(t) : t \in ModelsTexts}

----------------------------------------------------------------------------
(* LocalProvider.generateCompletion                                         *)

\* const localModel = model || key
LocalModel(model, key) == IF model # "" THEN model ELSE key

\* Array.isArray(prompt) ? prompt : [{ role: 'user', content: prompt }]
Messages(prompt) ==
    IF prompt.isArray THEN prompt.list ELSE <<[role |-> "user", content |-> prompt.text]>>

\* the calls made to LocalProvider.generateCompletion: a prompt as text or as
\* messages, the model and the key given or empty, the endpoint given or empty
LocalCalls ==
    { [isArray |-> FALSE, model |-> "llama2", key |-> "sk-test", apiEndpoint |-> ""],
      [isArray |-> TRUE, model |-> "", key |-> "codellama",
       apiEndpoint |-> "http://127.0.0.1:1234"],
      [isArray |-> TRUE, model |-> "llama2", key |-> "", apiEndpoint |-> "http://127.0.0.1:1234"],
      [isArray |-> FALSE, model |-> "", key |-> "", apiEndpoint |-> ""] }

LocalGenerateCompletion(prompt, model, key, apiEndpoint) ==
    /\ pc = "idle"
    /\ op' = "LocalProvider.generateCompletion"
    /\ args' = [endpoint |-> LocalEndpoint(apiEndpoint), model |-> LocalModel(model, key),
                messages |-> Messages(prompt), format |-> "undefined",
                prompt |-> prompt, explicitModel |-> model, key |-> key,
                apiEndpoint |-> apiEndpoint]
    /\ Attempt(args', formats[1], <<>>)
    /\ UNCHANGED <<responses, result>>

----------------------------------------------------------------------------
(* OpenAIProvider.generateCompletion                                        *)

MaxCount == 12
Counts == (0..MaxCount) \cup {50}

\* `number`: given with a value, or omitted by the caller
Given(n) == [given |-> TRUE, value |-> n]
Omitted == [given |-> FALSE, value |-> 0]
Numbers == {Omitted} \cup {Given(n) : n \in Counts}

ApiEndpoints == {"https://api.openai.com/v1", "https://llm.example.test/v1"}
\* the host the HTTP client resolves for a base path
HostOf(apiEndpoint) ==
    IF apiEndpoint = "https://api.openai.com/v1" THEN "api.openai.com" ELSE "llm.example.test"

Prompts == { [isArray |-> FALSE, text |-> "list files", list |-> <<>>],
             [isArray |-> TRUE, text |-> "",
              list |-> <<[role |-> "system", content |-> "be brief"],
                         [role |-> "user", content |-> "list files"]>>] }
CompletionModels == {"", "gpt-4"}

DefaultModel == "gpt-4o-mini"
MaxCandidates == 10

\* mutant of MathMin: the cap is not applied
MathMinUncapped(a, b) == a

\* Math.min(number, 10)
MathMin(a, b) == IF a < b THEN a ELSE b

\* the `number = 1` default of the destructured parameter
NumberOrDefault(number) == IF number.given THEN number.value ELSE 1

\* the request object handed to openAi.createChatCompletion
CompletionRequest(prompt, number, model) ==
    [model |-> IF model # "" THEN model ELSE DefaultModel,
     messages |-> IF prompt.isArray THEN prompt.list
                  ELSE <<[role |-> "user", content |-> prompt.text]>>,
     n |-> MathMin(NumberOrDefault(number), MaxCandidates),
     stream |-> TRUE]

\* what the upstream call can settle with: the response stream, or an AxiosError
NoRequest == [hostname |-> "", syscall |-> ""]
NoResponse == [present |-> FALSE, status |-> 0]
AxiosError(code, message, request, response) ==
    [type |-> "AxiosError", message |-> <<Raw(message)>>, code |-> code,
     request |-> request, response |-> response]

UpstreamOk == [kind |-> "ok", err |-> None]
UpstreamFailed(err) == [kind |-> "error", err |-> err]

UpstreamOutcomes(apiEndpoint) ==
    { UpstreamOk,
      UpstreamFailed(AxiosError("ENOTFOUND", "getaddrinfo ENOTFOUND",
                                [hostname |-> HostOf(apiEndpoint), syscall |-> "getaddrinfo"],
                                NoResponse)),
      UpstreamFailed(AxiosError("ECONNREFUSED", "connect ECONNREFUSED",
                                [hostname |-> HostOf(apiEndpoint), syscall |-> "connect"],
                                NoResponse)) }
    \cup { UpstreamFailed(AxiosError("ERR_BAD_RESPONSE", "Request failed with status code",
                                     NoRequest, [present |-> TRUE, status |-> st]))
           : st \in {400, 429, 500} }

\* what the body of an upstream error response can hold
ErrorTexts ==
    { <<Pun("{"), Str("error"), Pun(":"), Pun("{"), Str("message"), Pun(":"),
        Str("quota"), Pun("}"), Pun("}")>>,
      <<Raw("Bad"), Ws(" "), Raw("Gateway")>>,
      <<Lit("null")>>,
      <<>> }

\* `message` after streamToString and the guarded JSON.parse
ParsedMessage(text) ==
    IF JSONparse(text).ok THEN [isString |-> FALSE, text |-> <<>>, val |-> JSONparse(text).val]
    ELSE [isString |-> TRUE, text |-> text, val |-> Undefined]

MessageTruthy(message) ==
    IF message.isString THEN message.text # <<>> ELSE Truthy(message.val)

\* message && JSON.stringify(message, null, 2), as it is spliced into the text
MessageString(message) ==
    IF MessageTruthy(message)
    THEN IF message.isString THEN StringLiteral(message.text)
         ELSE Stringify(message.val, TRUE, 0)
    ELSE IF message.isString \/ message.val.t = "str" THEN <<>>
    ELSE <<Raw(message.val.s)>>

ConnectivityError(request) ==
    Err("KnownError",
        <<Raw("Error connecting to "), Raw(request.hostname), Raw(" ("), Raw(request.syscall),
          Raw("). Are you connected to the internet?")>>)

QuotaError(messageString) ==
    Err("KnownError",
        <<Raw("Request to OpenAI failed with status "), Raw("429"),
          Raw(". This is due to incorrect billing setup or excessive quota usage."),
          Raw("Full message from OpenAI:"), Raw("\n\n")>>
        \o messageString \o <<Raw("\n")>>)

UpstreamError(status, messageString) ==
    Err("KnownError",
        <<Raw("Request to OpenAI failed with status "), Raw(ToString(status)), Raw(":"),
          Raw("\n\n")>>
        \o messageString \o <<Raw("\n")>>)

\* is this failure the DNS failure the catch block singles out
IsDnsFailure(error) == error.code = "ENOTFOUND"

\* mutant of Classify: the 429 branch is gone, 429 is one more status
ClassifyWithoutQuota(error, hasMessage, message) ==
    IF error.response.present /\ hasMessage /\ MessageTruthy(message)
    THEN Thrown(UpstreamError(error.response.status, MessageString(message)))
    ELSE Thrown(error)

\* the catch block after `message` is known: lines 82-107
Classify(error, hasMessage, message) ==
    IF error.response.present /\ error.response.status = 429
    THEN Thrown(QuotaError(IF hasMessage THEN MessageString(message) ELSE <<Raw("undefined")>>))
    ELSE IF error.response.present /\ hasMessage /\ MessageTruthy(message)
         THEN Thrown(UpstreamError(error.response.status, MessageString(message)))
    ELSE Thrown(error)

GenerateCompletion(prompt, number, model, key, apiEndpoint) ==
    /\ pc = "idle"
    /\ op' = "OpenAIProvider.generateCompletion"
    /\ args' = [prompt |-> prompt, number |-> number, model |-> model, key |-> key,
                apiEndpoint |-> apiEndpoint]
    /\ requests' = <<[method |-> "POST",
                      url |-> <<Raw(apiEndpoint), Raw("/chat/completions")>>,
                      body |-> CompletionRequest(prompt, number, model)]>>
    /\ pc' = "upstream"
    /\ UNCHANGED <<fmt, body, responses, result>>

\* openAi.createChatCompletion settles
UpstreamSettled ==
    /\ pc = "upstream"
    /\ \E o \in UpstreamOutcomes(args.apiEndpoint) :
        /\ responses' = Append(responses, o)
        /\ UNCHANGED <<op, args>>
        /\ IF o.kind = "ok" THEN Finish(Returned(BodyStream(Len(responses) + 1)))
           ELSE IF IsDnsFailure(o.err) THEN Finish(Thrown(ConnectivityError(o.err.request)))
           ELSE IF o.err.response.present
                THEN pc' = "drain" /\ UNCHANGED <<fmt, body, requests, result>>
           ELSE Finish(Classify(o.err, FALSE, ParsedMessage(<<>>)))

\* mutant of DrainSettled: a 429 is answered by sending the request again
DrainSettledRetries429(text) ==
    /\ pc = "drain"
    /\ responses' = Append(responses, BodyRead(text))
    /\ UNCHANGED <<op, args>>
    /\ IF responses[Len(responses)].err.response.status = 429
       THEN /\ requests' = Append(requests, requests[1])
            /\ pc' = "upstream"
            /\ UNCHANGED <<fmt, body, result>>
       ELSE Finish(Classify(responses[1].err, TRUE, ParsedMessage(text)))

\* streamToString(response.data) settles with the text of the error body
DrainSettled(text) ==
    /\ pc = "drain"
    /\ responses' = Append(responses, BodyRead(text))
    /\ UNCHANGED <<op, args>>
    /\ Finish(Classify(responses[1].err, TRUE, ParsedMessage(text)))

----------------------------------------------------------------------------
(* The provider registry                                                    *)

providers ==
    [openai |-> [class |-> "OpenAIProvider", name |-> "openai"],
     local |-> [class |-> "LocalProvider", name |-> "local"]]

\* what every object literal inherits from Object.prototype
ObjectPrototype ==
    {"constructor", "toString", "toLocaleString", "valueOf", "hasOwnProperty",
     "isPrototypeOf", "propertyIsEnumerable", "__proto__"}

Missing == [class |-> "undefined", name |-> ""]

\* providers[name]: an own property, else one found up the prototype chain
Lookup(name) ==
    IF name \in DOMAIN providers THEN providers[name]
    ELSE IF name \in ObjectPrototype THEN [class |-> "Object.prototype", name |-> name]
    ELSE Missing

UnknownProviderError(name) == Err("KnownError", <<Raw("Unknown provider: "), Raw(name)>>)

ProviderNames == {"openai", "local", "gemini", "", "constructor", "toString", "__proto__"}

getProvider(name) ==
    /\ pc = "idle"
    /\ op' = "getProvider"
    /\ args' = [name |-> name]
    /\ pc' = "done"
    /\ result' = IF Lookup(name) = Missing THEN Thrown(UnknownProviderError(name))
                 ELSE Returned(Lookup(name))
    /\ UNCHANGED <<fmt, body, requests, responses>>

----------------------------------------------------------------------------
\* the caller takes the result; the next invocation starts from scratch
Return ==
    /\ pc = "done"
    /\ pc' = "idle"
    /\ op' = "none"
    /\ args' = None
    /\ fmt' = "undefined"
    /\ body' = None
    /\ requests' = <<>>
    /\ responses' = <<>>
    /\ result' = None

Init ==
    /\ pc = "idle"
    /\ op = "none"
    /\ args = None
    /\ fmt = "undefined"
    /\ body = None
    /\ requests = <<>>
    /\ responses = <<>>
    /\ result = None

Next ==
    \/ \E e \in Endpoints, m \in ModelNames, ms \in MessageLists, f \in Pinned :
          CreateStream(e, m, ms, f)
    \/ \E o \in FetchOutcomes : StreamFetchSettled(o)
    \/ \E o \in FetchOutcomes : RetryFetchSettled(o)
    \/ \E o \in BodyOutcomes : JsonSettled(o)
    \/ \E e \in Endpoints : ListModels(e)
    \/ \E k \in Keys, e \in Endpoints \cup {""} : GetModels(k, e)
    \/ \E o \in ProbeOutcomes : ProbeSettled(o)
    \/ \E o \in ModelsBodyOutcomes : ProbeJsonSettled(o)
    \/ \E c \in LocalCalls, p \in Prompts :
          /\ p.isArray = c.isArray
          /\ LocalGenerateCompletion(p, c.model, c.key, c.apiEndpoint)
    \/ \E p \in Prompts, n \in Numbers, m \in CompletionModels, k \in Keys, e \in ApiEndpoints :
          GenerateCompletion(p, n, m, k, e)
    \/ UpstreamSettled
    \/ \E t \in ErrorTexts : DrainSettled(t)
    \/ \E name \in ProviderNames : getProvider(name)
    \/ Return

Spec == Init /\ [][Next]_vars

----------------------------------------------------------------------------
(* Vocabulary of the properties, read off the logs of an invocation.        *)

\* the settled fetches, in order: the i-th answers requests[i]
FetchLog == SelectSeq(responses, LAMBDA r : r.kind \in {"reject", "response"})

\* the body reads of response.json(), in order
BodyLog == SelectSeq(responses, LAMBDA r : r.kind \in {"body", "bodyerror"})

Dialects == {"ollama", "lmstudio", "openai"}

\* the documented priority of a dialect: ollama, then lmstudio, then openai
Priority(d) == CASE d = "ollama" -> 1 [] d = "lmstudio" -> 2 [] d = "openai" -> 3

ChatPath(d) ==
    CASE d = "ollama" -> "/api/chat"
      [] d = "lmstudio" -> "/v1/chat/completions"
      [] d = "openai" -> "/chat/completions"

\* the dialect a chat request is addressed to, by its path
DialectOf(request) == CHOOSE d \in Dialects : request.url[2] = Raw(ChatPath(d))

Unpinned == op = "createStream" /\ args.format = "undefined"

\* the content types that announce a stream
AnnouncesStream(header) ==
    /\ header.present
    /\ header.value[1] \in {Raw("application/x-ndjson"), Raw("text/event-stream")}

\* the server's answer to request i makes the attempt of its dialect succeed
Accepted(i) ==
    /\ i <= Len(FetchLog)
    /\ FetchLog[i].kind = "response"
    /\ FetchLog[i].status = 200
    /\ IF requests[i].body.stream
       THEN /\ FetchLog[i].hasBody
            /\ DialectOf(requests[i]) = "ollama" => AnnouncesStream(FetchLog[i].contentType)
       ELSE /\ BodyLog # <<>>
            /\ BodyLog[1].kind = "body"
            /\ JSONparse(BodyLog[1].text).ok

Succeeded(d) == \E i \in 1..Len(requests) : DialectOf(requests[i]) = d /\ Accepted(i)
Requested(d) == \E i \in 1..Len(requests) : DialectOf(requests[i]) = d

\* C1: an unpinned createStream requests the dialects in the order ollama,
\* lmstudio, openai; a dialect is requested only after every dialect of higher
\* priority was requested and failed; nothing is requested below a dialect that
\* succeeded; the stream returned is tagged with the first dialect that
\* succeeded, and the call throws only when none did.
C1_DialectOrder ==
    Unpinned =>
      /\ \A i, j \in 1..Len(requests) :
            i < j => Priority(DialectOf(requests[i])) <= Priority(DialectOf(requests[j]))
      /\ \A j \in 1..Len(requests) : \A d \in Dialects :
            Priority(d) < Priority(DialectOf(requests[j])) =>
               /\ \E i \in 1..(j - 1) : DialectOf(requests[i]) = d
               /\ ~Succeeded(d)
      /\ \A d \in Dialects : Succeeded(d) =>
            \A j \in 1..Len(requests) : Priority(DialectOf(requests[j])) <= Priority(d)
      /\ (pc = "done" /\ result.kind = "return") =>
            /\ Succeeded(result.value.format)
            /\ \A d \in Dialects :
                  Priority(d) < Priority(result.value.format) => Requested(d) /\ ~Succeeded(d)
      /\ (pc = "done" /\ result.kind = "throw") => \A d \in Dialects : ~Succeeded(d)

\* C1 witness: ollama and lmstudio failed and the openai stream is returned
C1_Witness ==
    /\ Unpinned /\ pc = "done" /\ result.kind = "return"
    /\ result.value.format = "openai"
    /\ Len(requests) = 4

\* C2 as claimed: when all three probes fail (transport error or non-2xx),
\* LocalProvider.getModels returns the built-in catalog with llama2 and codellama.
C2_CatalogWhenProbesFail ==
    ( /\ op = "LocalProvider.getModels" /\ pc = "done"
      /\ Len(FetchLog) = 3
      /\ \A i \in 1..3 : ~Ok(FetchLog[i]) )
    => /\ result.kind = "return"
       /\ result.value # <<>>
       /\ \A id \in {"llama2", "codellama"} :
             \E i \in 1..Len(result.value) : result.value[i].id = JStr(id)

\* the retry of the ollama dialect succeeded: 2xx and a body that parses
RetrySucceeded ==
    /\ Len(FetchLog) >= 2
    /\ FetchLog[2].kind = "response" /\ FetchLog[2].status = 200
    /\ BodyLog # <<>> /\ BodyLog[1].kind = "body" /\ JSONparse(BodyLog[1].text).ok

\* the first request went to ollama and was answered 2xx with a body whose
\* content type does not announce a stream
OllamaNotStreamed ==
    /\ op = "createStream"
    /\ Len(FetchLog) >= 1
    /\ DialectOf(requests[1]) = "ollama"
    /\ FetchLog[1].kind = "response" /\ FetchLog[1].status = 200 /\ FetchLog[1].hasBody
    /\ ~AnnouncesStream(FetchLog[1].contentType)

\* C3: after a 2xx ollama answer with a body that is no stream, the second
\* request is the first one with stream:false and nothing else changed; when it
\* succeeds the call returns a stream tagged ollama of exactly one chunk,
\* "data: " + the JSON of the body + newline, which parses back to the body.
C3_NonStreamingFallback ==
    OllamaNotStreamed =>
      /\ Len(requests) >= 2
      /\ requests[1].body.stream = TRUE
      /\ requests[2].body.stream = FALSE
      /\ requests[2].url = requests[1].url
      /\ requests[2].method = requests[1].method
      /\ requests[2].body = [requests[1].body EXCEPT !.stream = FALSE]
      /\ RetrySucceeded =>
            /\ pc = "done" /\ result.kind = "return"
            /\ result.value.format = "ollama"
            /\ result.value.stream.src = "fake"
            /\ Len(result.value.stream.chunks) = 1
            /\ LET chunk == result.value.stream.chunks[1]
                   payload == SubSeq(chunk, 2, Len(chunk) - 1)
               IN /\ Len(chunk) >= 3
                  /\ chunk[1] = Raw("data: ")
                  /\ chunk[Len(chunk)] = Raw("\n")
                  /\ \A k \in 1..Len(payload) : payload[k].k # "ws"
                  /\ JSONparse(payload).ok
                  /\ JSONparse(payload).val = JSONparse(BodyLog[1].text).val

\* C3 witness: the fallback ran on a body written with white space
C3_Witness ==
    /\ OllamaNotStreamed /\ RetrySucceeded /\ pc = "done"
    /\ \E k \in 1..Len(BodyLog[1].text) : BodyLog[1].text[k].k = "ws"

\* C4: when every chat request is answered non-2xx, an unpinned createStream
\* ends by throwing the aggregated error naming the endpoint, and it throws
\* only after all three dialects were requested.
C4_Exhausted ==
    Unpinned =>
      /\ ( /\ pc = "done"
           /\ \A i \in 1..Len(FetchLog) :
                 FetchLog[i].kind = "response" /\ FetchLog[i].status \notin 200..299 )
         => /\ result.kind = "throw"
            /\ result.err.type = "KnownError"
            /\ result.err.message[1] = Raw("Failed to connect to any local model server at ")
            /\ Includes(result.err.message, <<Raw(args.endpoint)>>)
      /\ (pc = "done" /\ result.kind = "throw") => \A d \in Dialects : Requested(d)

\* C4 witness: four non-2xx answers (ollama twice), then the aggregated error
C4_Witness ==
    /\ Unpinned /\ pc = "done" /\ result.kind = "throw"
    /\ Len(FetchLog) = 4
    /\ \A i \in 1..4 : FetchLog[i].kind = "response" /\ FetchLog[i].status \in {404, 500}

\* C5 as claimed: every failure of createStream, pinned or not, is the
\* aggregated error naming the endpoint.
C5_OnlyAggregatedError ==
    (op = "createStream" /\ pc = "done" /\ result.kind = "throw")
    => result.err = ExhaustedError(args.endpoint)

\* C6 as claimed: getProvider returns the registered instance exactly for
\* "openai" and "local", and throws the unknown-provider error for every other name.
C6_RegistryLookup ==
    (op = "getProvider" /\ pc = "done") =>
       IF args.name \in {"openai", "local"}
       THEN result = Returned(providers[args.name]) /\ providers.openai # providers.local
       ELSE result = Thrown(UnknownProviderError(args.name))

\* the upstream call of generateCompletion failed with this error
UpstreamFailure == responses[1].err

GenerateDone ==
    /\ op = "OpenAIProvider.generateCompletion" /\ pc = "done"
    /\ responses[1].kind = "error"

C8_TypedUpstreamError ==
    ( /\ GenerateDone
      /\ UpstreamFailure.response.present
      /\ UpstreamFailure.response.status # 429 )
    => /\ result.kind = "throw" /\ result.err.type = "KnownError"
       /\ Includes(result.err.message, <<Raw(ToString(UpstreamFailure.response.status))>>)

\* C9 as claimed: every connection-level failure, refused connection as well
\* as DNS failure, ends generateCompletion with the typed connectivity error.
C9_TypedConnectivityError ==
    (GenerateDone /\ UpstreamFailure.code \in {"ENOTFOUND", "ECONNREFUSED"})
    => /\ result.kind = "throw" /\ result.err.type = "KnownError"
       /\ result.err.message[1] = Raw("Error connecting to ")

\* C10: the n transmitted is the requested count capped at 10: never above 10,
\* 10 for a count of 50, 1 when the count is omitted.
C10_CountClamped ==
    (op = "OpenAIProvider.generateCompletion") =>
      /\ Len(requests) = 1
      /\ LET n == requests[1].body.n
             number == args.number
         IN /\ n <= 10
            /\ number.given /\ number.value <= 10 => n = number.value
            /\ number.given /\ number.value > 10 => n = 10
            /\ number.given /\ number.value = 50 => n = 10
            /\ ~number.given => n = 1

\* C10 witness: a count of 50 was requested and 10 transmitted
C10_Witness ==
    /\ op = "OpenAIProvider.generateCompletion"
    /\ args.number = Given(50)
    /\ requests[1].body.n = 10

----------------------------------------------------------------------------
(* Properties of the model-listing, pinning and single-attempt behaviour.   *)

Negotiating == op \in {"createStream", "LocalProvider.generateCompletion"}
Listing == op \in {"listModels", "LocalProvider.getModels"}

\* C11: whatever the three probes answer (transport error, non-2xx, 2xx with a
\* body that does not parse, 2xx with a body of any shape), LocalProvider.getModels
\* ends by returning a sequence of model descriptors, never by throwing.
C11_GetModelsNeverRaises ==
    (op = "LocalProvider.getModels" /\ pc = "done") =>
       /\ result.kind = "return"
       /\ \A i \in 1..Len(result.value) :
             /\ DOMAIN result.value[i] = {"id", "object", "created", "owned_by"}
             /\ result.value[i].object = "model"
             /\ result.value[i].owned_by = "local"

\* C11 witness: a probe failed in transport, one answered 2xx with the body
\* null (its transform throws), one answered non-2xx
C11_Witness ==
    /\ op = "LocalProvider.getModels" /\ pc = "done"
    /\ \E i \in 1..Len(FetchLog) : FetchLog[i].kind = "reject"
    /\ \E i \in 1..Len(FetchLog) : FetchLog[i].kind = "response" /\ ~Ok(FetchLog[i])
    /\ \E k \in 1..Len(BodyLog) : BodyLog[k] = BodyRead(<<Lit("null")>>)

\* C12: with a pinned dialect every request of createStream goes to that
\* dialect's chat path, whether the attempt succeeds or fails.
C12_PinnedOnly ==
    (op = "createStream" /\ args.format # "undefined") =>
       /\ \A i \in 1..Len(requests) :
             requests[i].url = <<Raw(args.endpoint), Raw(ChatPath(args.format))>>
       /\ pc = "done" /\ result.kind = "return" => result.value.format = args.format

\* C12 witness: the pinned ollama attempt failed after its retry
C12_Witness ==
    /\ op = "createStream" /\ args.format = "ollama"
    /\ pc = "done" /\ result.kind = "throw"
    /\ Len(requests) = 2

\* C13: OpenAIProvider.generateCompletion issues one upstream request per
\* invocation, whether it succeeds, fails to connect, is answered 429 or any
\* other non-2xx.
C13_SingleUpstreamRequest ==
    (op = "OpenAIProvider.generateCompletion") =>
       /\ Len(requests) = 1
       /\ requests[1].url = <<Raw(args.apiEndpoint), Raw("/chat/completions")>>
       /\ Cardinality({i \in 1..Len(responses) : responses[i].kind \in {"ok", "error"}}) <= 1

\* C13 witness: the invocation ended on a 429 with one request sent
C13_Witness ==
    /\ op = "OpenAIProvider.generateCompletion" /\ pc = "done"
    /\ responses[1].kind = "error" /\ responses[1].err.response.status = 429
    /\ Len(requests) = 1

\* the endpoint LocalProvider.generateCompletion is documented to use
EffectiveEndpoint ==
    IF args.apiEndpoint = "" THEN "http://localhost:11434" ELSE args.apiEndpoint

\* C14: a failure of LocalProvider.generateCompletion is one KnownError that
\* names the effective endpoint and carries the message of the negotiator's
\* error; on success the stream the negotiator obtained is returned as it is.
C14_LocalGenerateOutcome ==
    (op = "LocalProvider.generateCompletion" /\ pc = "done") =>
       /\ result.kind = "throw" =>
             /\ result.err.type = "KnownError"
             /\ SubSeq(result.err.message, 1, 2) =
                   <<Raw("Failed to connect to local model server at "), Raw(EffectiveEndpoint)>>
             /\ Includes(result.err.message,
                         <<Raw("\n\nError: "),
                           Raw("Failed to connect to any local model server at "),
                           Raw(EffectiveEndpoint),
                           Raw(". Supported formats: Ollama, LM Studio, OpenAI-compatible")>>)
             /\ \A d \in Dialects : ~Succeeded(d)
       /\ result.kind = "return" =>
             /\ DOMAIN result.value = {"src", "index", "chunks"}
             /\ result.value.src = "response" =>
                   /\ result.value.index = Len(responses)
                   /\ Accepted(Len(requests))
                   /\ requests[Len(requests)].body.stream
             /\ result.value.src = "fake" =>
                   /\ ~requests[Len(requests)].body.stream
                   /\ Accepted(Len(requests))
                   /\ result.value.chunks =
                         << <<Raw("data: ")>>
                            \o StripWs(BodyLog[1].text) \o <<Raw("\n")>> >>

\* C14 witness: no endpoint given, every dialect failed
C14_Witness ==
    /\ op = "LocalProvider.generateCompletion" /\ pc = "done"
    /\ args.apiEndpoint = "" /\ result.kind = "throw"

\* the requests sent to dialect d
RequestsTo(d) == {i \in 1..Len(requests) : DialectOf(requests[i]) = d}

\* C15: during a createStream at most one request is unanswered, a request
\* goes out only when all earlier ones have settled, and an unpinned call
\* sends at most four: two to ollama, one to lmstudio, one to openai.
C15_Sequential ==
    Negotiating =>
       /\ Len(requests) - Len(FetchLog) \in {0, 1}
       /\ pc \in {"json", "done"} => Len(requests) = Len(FetchLog)
       /\ BodyLog = <<>> /\ pc # "json" => Len(responses) = Len(FetchLog)
       /\ args.format = "undefined" =>
             /\ Len(requests) <= 4
             /\ Cardinality(RequestsTo("ollama")) <= 2
             /\ Cardinality(RequestsTo("lmstudio")) <= 1
             /\ Cardinality(RequestsTo("openai")) <= 1

\* C15 witness: the fourth request is out and the three before it have settled
C15_Witness ==
    /\ Negotiating /\ args.format = "undefined"
    /\ pc = "fetch" /\ Len(requests) = 4 /\ Len(FetchLog) = 3

\* C16: to lmstudio and to openai one request goes out per attempt, with
\* stream:true; a 2xx answer with a body is returned as the stream whatever its
\* content type, any other answer fails the attempt with no second request.
C16_NoGateNoRetry ==
    Negotiating =>
       \A d \in {"lmstudio", "openai"} :
          /\ Cardinality(RequestsTo(d)) <= 1
          /\ \A i \in RequestsTo(d) :
                /\ requests[i].body.stream
                /\ i <= Len(FetchLog) =>
                      IF /\ FetchLog[i].kind = "response" /\ FetchLog[i].status = 200
                         /\ FetchLog[i].hasBody
                      THEN /\ pc = "done" /\ result.kind = "return"
                           /\ i = Len(requests)
                           /\ op = "createStream" =>
                                 result.value = [stream |-> BodyStream(Len(responses)),
                                                 format |-> d]
                      ELSE /\ i = Len(requests) => pc = "done" /\ result.kind = "throw"
                           /\ (op = "createStream" /\ args.format = d) =>
                                 /\ pc = "done"
                                 /\ FetchLog[i].kind = "response" =>
                                       result.err =
                                          Err("Error", <<Raw(d), Raw(" request failed: "),
                                                         Raw(StatusText(FetchLog[i].status))>>)

\* C16 witness: pinned lmstudio answered 200 with a JSON content type, returned
C16_Witness ==
    /\ op = "createStream" /\ args.format = "lmstudio" /\ pc = "done"
    /\ result.kind = "return"
    /\ FetchLog[1].contentType = Header(<<Raw("application/json")>>)

----------------------------------------------------------------------------
(* Properties of the probing of listModels and of the ollama retry.         *)

\* the documented probe order: path, list field and id field of the i-th probe
ProbePath(i) == CASE i = 1 -> "/api/tags" [] i = 2 -> "/v1/models" [] i = 3 -> "/models"
ProbeList(i) == IF i = 1 THEN "models" ELSE "data"
ProbeId(i) == IF i = 1 THEN "name" ELSE "id"

\* the body read that belongs to the i-th settled probe (only 2xx answers are read)
ReadsUpTo(i) == Cardinality({j \in 1..i : FetchLog[j].kind = "response" /\ FetchLog[j].status = 200})
BodySettled(i) ==
    /\ i <= Len(FetchLog)
    /\ FetchLog[i].kind = "response" /\ FetchLog[i].status = 200
    /\ ReadsUpTo(i) <= Len(BodyLog)
BodyOf(i) == BodyLog[ReadsUpTo(i)]

\* the body of probe i parsed
ProbeParsed(i) ==
    BodySettled(i) /\ BodyOf(i).kind = "body" /\ JSONparse(BodyOf(i).text).ok
ProbeData(i) == JSONparse(BodyOf(i).text).val

\* the transform of probe i throws: the data is null, or its list field holds
\* something that is no array, or an array with a null in it
ProbeTransformThrows(i) ==
    LET list == Get(ProbeData(i), ProbeList(i))
    IN \/ ProbeData(i).t = "null"
       \/ list.t \notin {"undefined", "null", "arr"}
       \/ list.t = "arr" /\ \E k \in 1..Len(list.items) : list.items[k].t = "null"

\* probe i was answered 2xx, but its body could not be read, parsed or transformed
ProbeBroken(i) ==
    BodySettled(i) /\ (~ProbeParsed(i) \/ ProbeTransformThrows(i))

ProbeSucceeded(i) == ProbeParsed(i) /\ ~ProbeTransformThrows(i)

\* what the transform of probe i is documented to give
ProbeModels(i) ==
    LET list == Get(ProbeData(i), ProbeList(i))
    IN IF list.t # "arr" THEN <<>>
       ELSE [k \in 1..Len(list.items) |->
                [id |-> Get(list.items[k], ProbeId(i)),
                 name |-> Get(list.items[k], ProbeId(i))]]

\* C17: listModels probes /api/tags, /v1/models, /models in that order, returns
\* the transformed result of the first probe that succeeds and probes no
\* further; when all three fail it returns the empty sequence and does not throw.
C17_ProbeOrder ==
    Listing =>
       /\ Len(requests) <= 3
       /\ \A i \in 1..Len(requests) :
             requests[i] = [method |-> "GET", body |-> None,
                            url |-> <<Raw(args.endpoint), Raw(ProbePath(i))>>]
       /\ \A i \in 1..Len(FetchLog) : ProbeSucceeded(i) =>
             /\ pc = "done" /\ i = Len(requests)
             /\ op = "listModels" => result = Returned(ProbeModels(i))
       /\ (pc = "done" /\ \A i \in 1..Len(FetchLog) : ~ProbeSucceeded(i)) =>
             /\ Len(requests) = 3
             /\ result = Returned(<<>>)
       /\ pc = "done" => result.kind = "return"

\* C17 witness: the first probe failed, the second returned two models
C17_Witness ==
    /\ op = "listModels" /\ pc = "done"
    /\ Len(requests) = 2
    /\ ProbeSucceeded(2)
    /\ Len(result.value) = 2 /\ result.value[1].id = JStr("qwen2")

\* C18 as claimed: the model name handed to the negotiator is the explicit
\* model, else the key, else a default, so it is never empty; the endpoint is
\* the caller's when given and http://localhost:11434 otherwise.
C18_ModelAndEndpointResolved ==
    (op = "LocalProvider.generateCompletion") =>
       \A i \in 1..Len(requests) :
          /\ requests[i].body.model # ""
          /\ args.explicitModel # "" => requests[i].body.model = args.explicitModel
          /\ (args.explicitModel = "" /\ args.key # "") => requests[i].body.model = args.key
          /\ requests[i].url[1] = Raw(EffectiveEndpoint)

\* the first request went to ollama and has settled
OllamaFirst ==
    /\ Negotiating
    /\ Len(FetchLog) >= 1
    /\ DialectOf(requests[1]) = "ollama"

OllamaRetried == Len(requests) >= 2 /\ DialectOf(requests[2]) = "ollama"

\* the ollama attempt is over and failed: a pinned call has thrown, an
\* unpinned one has sent request n to lmstudio
OllamaFailedBefore(n) ==
    IF args.format = "ollama"
    THEN pc = "done" /\ result.kind = "throw" /\ Len(requests) = n - 1
    ELSE Len(requests) >= n /\ DialectOf(requests[n]) = "lmstudio"

\* the retry has failed: transport error, non-2xx, or a body that does not parse
RetryFailed ==
    /\ OllamaRetried /\ Len(FetchLog) >= 2
    /\ \/ FetchLog[2].kind = "reject"
       \/ FetchLog[2].status # 200
       \/ BodyLog # <<>> /\ (BodyLog[1].kind = "bodyerror" \/ ~JSONparse(BodyLog[1].text).ok)

\* C19: ollama is retried with stream:false exactly when the first request was
\* answered by a response that is no accepted stream (non-2xx, 2xx without a
\* body, 2xx of another content type); a transport error of the first request
\* fails the attempt with no retry; a failed retry fails it with no third request.
C19_RetryExactlyWhen ==
    OllamaFirst =>
       /\ OllamaRetried <=>
             /\ FetchLog[1].kind = "response"
             /\ ~ /\ FetchLog[1].status = 200 /\ FetchLog[1].hasBody
                  /\ AnnouncesStream(FetchLog[1].contentType)
       /\ OllamaRetried => ~requests[2].body.stream
       /\ FetchLog[1].kind = "reject" => OllamaFailedBefore(2)
       /\ Cardinality(RequestsTo("ollama")) <= 2
       /\ RetryFailed => OllamaFailedBefore(3)

\* C19 witness: the retry came back 2xx with a body that does not parse, and
\* the unpinned call went on to lmstudio
C19_Witness ==
    /\ OllamaFirst /\ args.format = "undefined" /\ RetryFailed
    /\ BodyLog # <<>> /\ BodyLog[1] = BodyRead(<<Raw("<html>")>>)
    /\ Len(requests) >= 3

\* the parsed body of probe i is an object without the list field of its dialect
ProbeLacksList(i) ==
    /\ ProbeParsed(i)
    /\ ProbeData(i).t = "obj"
    /\ Get(ProbeData(i), ProbeList(i)).t = "undefined"

\* C20: a probe answered 2xx whose body fails to parse, or whose transform
\* throws, is followed by the next probe; a probe answered 2xx whose parsed
\* body lacks the list field ends the probing with the empty sequence.
C20_ProbeSuccess ==
    Listing =>
       \A i \in 1..Len(FetchLog) :
          /\ (ProbeBroken(i) \/ FetchLog[i].kind = "reject" \/ FetchLog[i].status # 200) =>
                IF i < 3 THEN Len(requests) >= i + 1
                ELSE pc = "done" /\ result = Returned(<<>>)
          /\ ProbeLacksList(i) =>
                /\ pc = "done"
                /\ Len(requests) = i
                /\ result = Returned(<<>>)

\* C20 witness: the first probe's body did not parse, the second's lacked the
\* list field, and the third probe was never sent
C20_Witness ==
    /\ op = "listModels" /\ pc = "done"
    /\ Len(FetchLog) = 2
    /\ ProbeBroken(1) /\ ProbeLacksList(2)

----------------------------------------------------------------------------
(* The bodies of the responses received by createStream.                    *)

\* response.json() is the only read of a body in createStreamWithFormat: it
\* follows the response of the stream:false fetch, and is logged right after it
BodyConsumed(i) ==
    /\ i < Len(responses)
    /\ responses[i + 1].kind \in {"body", "bodyerror"}

\* createStreamWithFormat holds no call of response.body.cancel(), no
\* AbortController and no finally block: no body is ever cancelled
BodyCancelled(i) == FALSE

\* the stream the invocation gave to its caller
StreamOf(r) ==
    IF r.kind # "return" THEN None
    ELSE IF op = "LocalProvider.generateCompletion" THEN r.value
    ELSE r.value.stream

\* the body of response i is the stream returned to the caller
BodyHandedOver(i) == StreamOf(result) = BodyStream(i)

\* the bodies received and neither read, cancelled nor handed to the caller
OpenBodies ==
    { i \in 1..Len(responses) :
         /\ responses[i].kind = "response"
         /\ responses[i].hasBody
         /\ ~BodyConsumed(i)
         /\ ~BodyCancelled(i)
         /\ ~BodyHandedOver(i) }

\* C21 as claimed: when createStream has returned or thrown, every response
\* body received during the invocation, other than the one returned to the
\* caller, has been consumed or cancelled; none is left open and unread.
C21_NoBodyLeftOpen ==
    (Negotiating /\ pc = "done") => OpenBodies = {}

====
